---- MODULE Spec2Model ----
(***************************************************************************)
(* Poco::Net::DNS (Net/src/DNS.cpp): the process-wide host entry cache,    *)
(* the FastMutex that guards it, and the resolution operations hostByName, *)
(* hostByAddress, resolve, resolveOne, thisHost and flushCache, called by  *)
(* several threads.  Both preprocessor variants of the file are modelled:  *)
(* build = "win6" is the branch taken when _WIN32 and POCO_HAVE_IPv6 are   *)
(* defined, build = "posix" is the #else branch.                           *)
(***************************************************************************)
EXTENDS Integers, Sequences, FiniteSets, TLC

VARIABLES
    build,      \* which preprocessor branch was compiled
    _cache,     \* DNS::_cache: std::map<std::string, HostEntry>
    _mutex,     \* DNS::_mutex: 0 when free, else the thread that holds it
    fqname,     \* static char fqname[1024] of hostByAddress (win6 branch)
    pc,         \* per thread: position in the code
    op,         \* per thread: the public operation the caller invoked
    arg,        \* per thread: the string given to resolve / resolveOne
    hostname,   \* per thread: parameter of hostByName
    address,    \* per thread: parameter of hostByAddress
    ret,        \* per thread: what the call handed to its caller
    count,      \* per thread: cache and OS resolver operations of this call
    tcode,      \* error translator on its own: the code given to error()
    targ,       \* error translator on its own: the subject given to error()
    tthrown     \* error translator on its own: what error() raised

vars == <<build, _cache, _mutex, fqname, pc, op, arg, hostname, address, ret,
          count, tcode, targ, tthrown>>

dnsVars == <<_cache, _mutex, fqname, pc, op, arg, hostname, address, ret, count>>
errVars == <<tcode, targ, tthrown>>

----------------------------------------------------------------------------
(* Bounds and input domains *)

NumThreads == 2
Threads == 1 .. NumThreads

Builds == {"posix", "win6"}

Names == {"x", "y"}
NoName == ""

A1 == <<192, 0, 2, 1>>
A2 == <<192, 0, 2, 2>>
IPAddrs == {A1, A2}
NoAddr == <<>>
\* what a read through a destroyed HostEntry may come up with
Garbage == <<0, 0, 0, 0>>

----------------------------------------------------------------------------
(* Number and address formatting *)

Digit(d) == CASE d = 0 -> "0" [] d = 1 -> "1" [] d = 2 -> "2" [] d = 3 -> "3"
              [] d = 4 -> "4" [] d = 5 -> "5" [] d = 6 -> "6" [] d = 7 -> "7"
              [] d = 8 -> "8" [] d = 9 -> "9"

RECURSIVE FormatNat(_)
FormatNat(n) == IF n < 10 THEN Digit(n)
                ELSE FormatNat(n \div 10) \o Digit(n % 10)

\* NumberFormatter::format(int): the decimal text of the value
NumberFormat(n) == IF n < 0 THEN "-" \o FormatNat(0 - n) ELSE FormatNat(n)

\* IPAddress::toString() of an IPv4 address: dotted decimal
toString(a) == FormatNat(a[1]) \o "." \o FormatNat(a[2]) \o "." \o
               FormatNat(a[3]) \o "." \o FormatNat(a[4])

\* the texts given to resolve and resolveOne: a host name and a literal address
Inputs == {"x", toString(A1)}

\* IPAddress::tryParse(address, ip): whether the text is a literal address...
tryParse(s) == \E a \in IPAddrs : toString(a) = s
\* ... and the address it leaves in ip when it is
parsed(s) == CHOOSE a \in IPAddrs : toString(a) = s

----------------------------------------------------------------------------
(* Platform error codes (values of the platform's netdb.h / winsock2.h) *)

POCO_ESYSNOTREADY   == IF build = "win6" THEN 10091 ELSE 0 - 4
POCO_ENOTINIT       == IF build = "win6" THEN 10093 ELSE 0 - 5
POCO_HOST_NOT_FOUND == IF build = "win6" THEN 11001 ELSE 1
POCO_TRY_AGAIN      == IF build = "win6" THEN 11002 ELSE 2
POCO_NO_RECOVERY    == IF build = "win6" THEN 11003 ELSE 3
POCO_NO_DATA        == IF build = "win6" THEN 11004 ELSE 4

MappedCodes == {POCO_ESYSNOTREADY, POCO_ENOTINIT, POCO_HOST_NOT_FOUND,
                POCO_TRY_AGAIN, POCO_NO_RECOVERY, POCO_NO_DATA}
\* codes outside the table that lastError() can report
OtherCodes == IF build = "win6" THEN {0, 10060} ELSE {0, 0 - 1}
ErrCodes == MappedCodes \cup OtherCodes

----------------------------------------------------------------------------
(* Exceptions: the class thrown and the constructor's arguments *)

Exc(type, args) == [type |-> type, args |-> args]

\* `throw NetException();` after the call of error(), lines 117 and 157
NetExceptionPlain == Exc("NetException", <<>>)
\* marks a call of error() that came back instead of throwing
Returned == Exc("", <<>>)

errorSwapsDns(code, a) ==
    CASE code = POCO_ESYSNOTREADY   -> Exc("NetException", <<"Net subsystem not ready">>)
      [] code = POCO_ENOTINIT       -> Exc("NetException", <<"Net subsystem not initialized">>)
      [] code = POCO_HOST_NOT_FOUND -> Exc("HostNotFoundException", <<a>>)
      [] code = POCO_TRY_AGAIN      -> Exc("DNSException", <<"Non recoverable DNS error while resolving", a>>)
      [] code = POCO_NO_RECOVERY    -> Exc("DNSException", <<"Temporary DNS error while resolving", a>>)
      [] code = POCO_NO_DATA        -> Exc("NoAddressFoundException", <<a>>)
      [] OTHER                      -> Exc("IOException", <<NumberFormat(code)>>)
errorDropsSubject(code, a) ==
    CASE code = POCO_ESYSNOTREADY   -> Exc("NetException", <<"Net subsystem not ready">>)
      [] code = POCO_ENOTINIT       -> Exc("NetException", <<"Net subsystem not initialized">>)
      [] code = POCO_HOST_NOT_FOUND -> Exc("HostNotFoundException", <<"">>)
      [] code = POCO_TRY_AGAIN      -> Exc("DNSException", <<"Temporary DNS error while resolving", a>>)
      [] code = POCO_NO_RECOVERY    -> Exc("DNSException", <<"Non recoverable DNS error while resolving", a>>)
      [] code = POCO_NO_DATA        -> Exc("NoAddressFoundException", <<a>>)
      [] OTHER                      -> Exc("IOException", <<NumberFormat(code)>>)

\* DNS::error(code, arg): the exception it throws
error(code, a) ==
    CASE code = POCO_ESYSNOTREADY   -> Exc("NetException", <<"Net subsystem not ready">>)
      [] code = POCO_ENOTINIT       -> Exc("NetException", <<"Net subsystem not initialized">>)
      [] code = POCO_HOST_NOT_FOUND -> Exc("HostNotFoundException", <<a>>)
      [] code = POCO_TRY_AGAIN      -> Exc("DNSException", <<"Temporary DNS error while resolving", a>>)
      [] code = POCO_NO_RECOVERY    -> Exc("DNSException", <<"Non recoverable DNS error while resolving", a>>)
      [] code = POCO_NO_DATA        -> Exc("NoAddressFoundException", <<a>>)
      [] OTHER                      -> Exc("IOException", <<NumberFormat(code)>>)

\* error(lastError(), subject); throw NetException();
raise(code, a) == LET e == error(code, a)
                  IN  IF e = Returned THEN NetExceptionPlain ELSE e

----------------------------------------------------------------------------
(* The OS resolver *)

hostent(n, al, ad) == [h_name |-> n, h_aliases |-> al, h_addr_list |-> ad]

\* gethostbyname(name) / getaddrinfo(name, AI_CANONNAME): what the resolver
\* may hand back when it succeeds.  "x" has address records, or at another
\* moment none; "y" has no forward record, so its lookup only ever fails.
gethostbyname(n) ==
    IF n = "x" THEN {hostent("x", <<"www.x">>, <<A1, A2>>), hostent("x", <<>>, <<>>)}
               ELSE {}

\* getaddrinfo(fqname) with zeroed hints: no canonical name is asked for
getaddrinfoPlain(n) == {hostent("", <<>>, he.h_addr_list) : he \in gethostbyname(n)}

\* gethostbyaddr(address): what the resolver may hand back when it succeeds
gethostbyaddr(a) ==
    IF a = A1 THEN {hostent("x", <<>>, <<A1>>)} ELSE {hostent("y", <<>>, <<A2>>)}

\* getnameinfo(address): the name it may write into fqname
getnameinfo(a) == {he.h_name : he \in gethostbyaddr(a)}

\* gethostname(): the local host's name
LocalName == "x"

----------------------------------------------------------------------------
(* HostEntry and the cache map *)

\* HostEntry::HostEntry(struct hostent*) / HostEntry(struct addrinfo*)
HostEntry(he) == [name |-> he.h_name, aliases |-> he.h_aliases,
                  addresses |-> he.h_addr_list]

EmptyCache == [k \in {} |-> HostEntry(hostent("", <<>>, <<>>))]

insertDrops(c, k, e) == c
insertOverwrites(c, k, e) == [x \in DOMAIN c \cup {k} |-> IF x = k THEN e ELSE c[x]]

\* std::map::insert: stores the pair unless the key is present
insert(c, k, e) ==
    IF k \in DOMAIN c THEN c
    ELSE [x \in DOMAIN c \cup {k} |-> IF x = k THEN e ELSE c[x]]

clearKeeps(c) == c

clearPartial(c) == [k \in DOMAIN c \ {"x"} |-> c[k]]

\* _cache.clear(): no pair is left
clear(c) == EmptyCache

findMisses(c, k) == FALSE

\* _cache.find(key) != _cache.end()
find(c, k) == k \in DOMAIN c

----------------------------------------------------------------------------
(* What a call hands to its caller *)

NoRet == [kind |-> "none"]
Void == [kind |-> "void"]
\* const HostEntry&: a reference to the map node stored under key k
RefTo(k) == [kind |-> "ref", key |-> k, dangling |-> FALSE]
Thrown(e) == [kind |-> "exc", exc |-> e]
Value(a) == [kind |-> "value", value |-> a]

NoCount == [find |-> 0, fwd |-> 0, rev |-> 0, insert |-> 0]

Bump(t, f) == [count EXCEPT ![t][f] = @ + 1]

----------------------------------------------------------------------------
(* Initial state: an empty cache, a free mutex, no call in progress *)

InitDns ==
    /\ build \in Builds
    /\ _cache = EmptyCache
    /\ _mutex = 0
    /\ fqname = NoName
    /\ pc = [t \in Threads |-> "idle"]
    /\ op = [t \in Threads |-> "none"]
    /\ arg = [t \in Threads |-> NoName]
    /\ hostname = [t \in Threads |-> NoName]
    /\ address = [t \in Threads |-> NoAddr]
    /\ ret = [t \in Threads |-> NoRet]
    /\ count = [t \in Threads |-> NoCount]

Init ==
    /\ InitDns
    /\ tcode = 0
    /\ targ = NoName
    /\ tthrown = NoRet

----------------------------------------------------------------------------
(* Entering and leaving the operations *)

\* a caller invokes public operation o; the call starts at position p
Enter(t, o, s, p, n, a) ==
    /\ pc[t] = "idle"
    /\ pc' = [pc EXCEPT ![t] = p]
    /\ op' = [op EXCEPT ![t] = o]
    /\ arg' = [arg EXCEPT ![t] = s]
    /\ hostname' = [hostname EXCEPT ![t] = n]
    /\ address' = [address EXCEPT ![t] = a]
    /\ UNCHANGED <<build, _cache, _mutex, fqname, ret, count, errVars>>

LockNoWait(t, from, to) ==
    /\ pc[t] = from
    /\ _mutex' = t
    /\ pc' = [pc EXCEPT ![t] = to]

\* FastMutex::ScopedLock lock(_mutex): blocks until the mutex is free
Lock(t, from, to) ==
    /\ pc[t] = from
    /\ _mutex = 0
    /\ _mutex' = t
    /\ pc' = [pc EXCEPT ![t] = to]

\* a return statement inside the locked scope has produced reference r;
\* the lock is held until the scope is left
Return(t, r) ==
    /\ ret' = [ret EXCEPT ![t] = r]
    /\ pc' = [pc EXCEPT ![t] = "leave"]
    /\ UNCHANGED <<op, arg, hostname, address>>

\* error() has thrown e inside the locked scope: the frames of the lookup and
\* of its callers resolve, resolveOne and thisHost are unwound
Throw(t, e) ==
    /\ ret' = [ret EXCEPT ![t] = Thrown(e)]
    /\ pc' = [pc EXCEPT ![t] = "leave"]
    /\ op' = [op EXCEPT ![t] = "none"]
    /\ arg' = [arg EXCEPT ![t] = NoName]
    /\ hostname' = [hostname EXCEPT ![t] = NoName]
    /\ address' = [address EXCEPT ![t] = NoAddr]

LeaveKeepsLock(t) ==
    /\ pc[t] = "leave"
    /\ count' = [count EXCEPT ![t] = NoCount]
    /\ hostname' = [hostname EXCEPT ![t] = NoName]
    /\ address' = [address EXCEPT ![t] = NoAddr]
    /\ IF ret[t].kind = "ref"
       THEN /\ pc' = [pc EXCEPT ![t] = IF op[t] = "resolveOne" THEN "ro_read" ELSE "done"]
            /\ op' = [op EXCEPT ![t] = IF op[t] = "resolveOne" THEN @ ELSE "none"]
            /\ arg' = [arg EXCEPT ![t] = IF op[t] = "resolveOne" THEN @ ELSE NoName]
            /\ UNCHANGED ret
       ELSE /\ pc' = [pc EXCEPT ![t] = "idle"]
            /\ op' = [op EXCEPT ![t] = "none"]
            /\ arg' = [arg EXCEPT ![t] = NoName]
            /\ ret' = [ret EXCEPT ![t] = NoRet]
    /\ fqname' = NoName
    /\ UNCHANGED <<build, _cache, _mutex, errVars>>

\* ~ScopedLock unlocks and control is back in the caller.  A reference goes
\* to `entry` of resolveOne (line 173) or to the outside caller, who keeps
\* it; an exception or the end of flushCache ends the operation.  What
\* fqname holds is dead from here on (getnameinfo rewrites it before the next
\* read), so the model forgets it.
Leave(t) ==
    /\ pc[t] = "leave"
    /\ _mutex' = 0
    /\ count' = [count EXCEPT ![t] = NoCount]
    /\ hostname' = [hostname EXCEPT ![t] = NoName]
    /\ address' = [address EXCEPT ![t] = NoAddr]
    /\ IF ret[t].kind = "ref"
       THEN /\ pc' = [pc EXCEPT ![t] = IF op[t] = "resolveOne" THEN "ro_read" ELSE "done"]
            /\ op' = [op EXCEPT ![t] = IF op[t] = "resolveOne" THEN @ ELSE "none"]
            /\ arg' = [arg EXCEPT ![t] = IF op[t] = "resolveOne" THEN @ ELSE NoName]
            /\ UNCHANGED ret
       ELSE /\ pc' = [pc EXCEPT ![t] = "idle"]
            /\ op' = [op EXCEPT ![t] = "none"]
            /\ arg' = [arg EXCEPT ![t] = NoName]
            /\ ret' = [ret EXCEPT ![t] = NoRet]
    /\ fqname' = NoName
    /\ UNCHANGED <<build, _cache, errVars>>

\* the caller is through with what the call gave it
Finish(t) ==
    /\ pc[t] = "done"
    /\ pc' = [pc EXCEPT ![t] = "idle"]
    /\ ret' = [ret EXCEPT ![t] = NoRet]
    /\ UNCHANGED <<build, _cache, _mutex, fqname, op, arg, hostname, address, count, errVars>>

----------------------------------------------------------------------------
(* The public operations, as their callers invoke them *)

CallHostByName(t) ==
    \E n \in Names : Enter(t, "hostByName", NoName, "hbn_lock", n, NoAddr)

CallHostByAddress(t) ==
    \E a \in IPAddrs : Enter(t, "hostByAddress", NoName, "hba_lock", NoName, a)

\* DNS::resolve: IPAddress::tryParse decides between the two lookups
resolveAlwaysByName(t, o, s) == Enter(t, o, s, "hbn_lock", s, NoAddr)
resolve(t, o, s) ==
    IF tryParse(s)
    THEN Enter(t, o, s, "hba_lock", NoName, parsed(s))
    ELSE Enter(t, o, s, "hbn_lock", s, NoAddr)

CallResolve(t) == \E s \in Inputs : resolve(t, "resolve", s)

\* DNS::resolveOne: const HostEntry& entry = resolve(address);
CallResolveOne(t) == \E s \in Inputs : resolve(t, "resolveOne", s)

\* DNS::thisHost: hostByName(hostName()), gethostname() succeeding (when it
\* fails, hostName() throws before any lock, cache or resolver is touched)
CallThisHost(t) == Enter(t, "thisHost", NoName, "hbn_lock", LocalName, NoAddr)

CallFlushCache(t) == Enter(t, "flushCache", NoName, "flush_lock", NoName, NoAddr)

----------------------------------------------------------------------------
(* DNS::hostByName *)

HbnLock(t) ==
    /\ Lock(t, "hbn_lock", "hbn_find")
    /\ UNCHANGED <<build, _cache, fqname, op, arg, hostname, address, ret, count, errVars>>

\* _cache.find(hostname): a hit returns it->second
HbnHit(t) ==
    /\ pc[t] = "hbn_find"
    /\ find(_cache, hostname[t])
    /\ count' = Bump(t, "find")
    /\ Return(t, RefTo(hostname[t]))
    /\ UNCHANGED <<build, _cache, _mutex, fqname, errVars>>

HbnMissUnlocks(t) ==
    /\ pc[t] = "hbn_find"
    /\ ~find(_cache, hostname[t])
    /\ pc' = [pc EXCEPT ![t] = "hbn_os"]
    /\ _mutex' = 0
    /\ count' = [count EXCEPT ![t].find = @ + 1, ![t].fwd = @ + 1]
    /\ UNCHANGED <<build, _cache, fqname, op, arg, hostname, address, ret, errVars>>

\* a miss: the thread goes into gethostbyname / getaddrinfo
HbnMiss(t) ==
    /\ pc[t] = "hbn_find"
    /\ ~find(_cache, hostname[t])
    /\ pc' = [pc EXCEPT ![t] = "hbn_os"]
    /\ count' = [count EXCEPT ![t].find = @ + 1, ![t].fwd = @ + 1]
    /\ UNCHANGED <<build, _cache, _mutex, fqname, op, arg, hostname, address, ret, errVars>>

HbnOsAnswerDropsFirst(t, he) ==
    /\ pc[t] = "hbn_os"
    /\ _cache' = insert(_cache, hostname[t],
                        HostEntry(hostent(he.h_name, he.h_aliases,
                                          IF he.h_addr_list = <<>> THEN <<>>
                                          ELSE Tail(he.h_addr_list))))
    /\ count' = Bump(t, "insert")
    /\ Return(t, RefTo(hostname[t]))
    /\ UNCHANGED <<build, _mutex, fqname, errVars>>

\* the resolver answers he: insert HostEntry(he) under hostname, return
\* res.first->second
HbnOsAnswer(t, he) ==
    /\ pc[t] = "hbn_os"
    /\ _cache' = insert(_cache, hostname[t], HostEntry(he))
    /\ count' = Bump(t, "insert")
    /\ Return(t, RefTo(hostname[t]))
    /\ UNCHANGED <<build, _mutex, fqname, errVars>>

HbnOsOk(t) == \E he \in gethostbyname(hostname[t]) : HbnOsAnswer(t, he)

HbnOsFailCaches(t) ==
    /\ pc[t] = "hbn_os"
    /\ \E code \in ErrCodes : Throw(t, raise(code, hostname[t]))
    /\ _cache' = insert(_cache, hostname[t], HostEntry(hostent(hostname[t], <<>>, <<>>)))
    /\ UNCHANGED <<build, _mutex, fqname, count, errVars>>

HbnOsFailRetries(t) ==
    /\ pc[t] = "hbn_os"
    /\ count[t].fwd < 3
    /\ count' = Bump(t, "fwd")
    /\ UNCHANGED <<build, _cache, _mutex, fqname, pc, op, arg, hostname, address, ret, errVars>>

\* the resolver fails: error(lastError(), hostname)
HbnOsFail(t) ==
    /\ pc[t] = "hbn_os"
    /\ \E code \in ErrCodes : Throw(t, raise(code, hostname[t]))
    /\ UNCHANGED <<build, _cache, _mutex, fqname, count, errVars>>

----------------------------------------------------------------------------
(* DNS::hostByAddress *)

\* the lock is taken and the thread goes into gethostbyaddr / getnameinfo
HbaLock(t) ==
    /\ Lock(t, "hba_lock", "hba_os")
    /\ count' = Bump(t, "rev")
    /\ UNCHANGED <<build, _cache, fqname, op, arg, hostname, address, ret, errVars>>

\* #else branch: insert HostEntry(he) under he->h_name, return res.first->second
HbaOsOkPosix(t) ==
    /\ pc[t] = "hba_os"
    /\ build = "posix"
    /\ \E he \in gethostbyaddr(address[t]) :
          /\ _cache' = insert(_cache, he.h_name, HostEntry(he))
          /\ Return(t, RefTo(he.h_name))
    /\ count' = Bump(t, "insert")
    /\ UNCHANGED <<build, _mutex, fqname, errVars>>

\* win6 branch: getnameinfo filled fqname and _cache.find(fqname) hits
HbaOsOkHit(t) ==
    /\ pc[t] = "hba_os"
    /\ build = "win6"
    /\ \E n \in getnameinfo(address[t]) :
          /\ find(_cache, n)
          /\ fqname' = n
          /\ Return(t, RefTo(n))
    /\ count' = Bump(t, "find")
    /\ UNCHANGED <<build, _cache, _mutex, errVars>>

\* win6 branch: _cache.find(fqname) misses, the thread goes into getaddrinfo
HbaOsOkMiss(t) ==
    /\ pc[t] = "hba_os"
    /\ build = "win6"
    /\ \E n \in getnameinfo(address[t]) :
          /\ ~find(_cache, n)
          /\ fqname' = n
    /\ pc' = [pc EXCEPT ![t] = "hba_fwd"]
    /\ count' = [count EXCEPT ![t].find = @ + 1, ![t].fwd = @ + 1]
    /\ UNCHANGED <<build, _cache, _mutex, op, arg, hostname, address, ret, errVars>>

\* gethostbyaddr / getnameinfo fails: error(lastError(), address.toString())
HbaOsFail(t) ==
    /\ pc[t] = "hba_os"
    /\ \E code \in ErrCodes : Throw(t, raise(code, toString(address[t])))
    /\ UNCHANGED <<build, _cache, _mutex, fqname, count, errVars>>

HbaFwdOkKeyedByAddress(t) ==
    /\ pc[t] = "hba_fwd"
    /\ \E he \in getaddrinfoPlain(fqname) :
          _cache' = insert(_cache, toString(address[t]), HostEntry(he))
    /\ count' = Bump(t, "insert")
    /\ Return(t, RefTo(toString(address[t])))
    /\ UNCHANGED <<build, _mutex, fqname, errVars>>

\* win6 branch: getaddrinfo(fqname) answers: insert under fqname, return
HbaFwdOk(t) ==
    /\ pc[t] = "hba_fwd"
    /\ \E he \in getaddrinfoPlain(fqname) :
          _cache' = insert(_cache, fqname, HostEntry(he))
    /\ count' = Bump(t, "insert")
    /\ Return(t, RefTo(fqname))
    /\ UNCHANGED <<build, _mutex, fqname, errVars>>

HbaFwdFailCaches(t) ==
    /\ pc[t] = "hba_fwd"
    /\ \E code \in ErrCodes : Throw(t, raise(code, toString(address[t])))
    /\ _cache' = insert(_cache, fqname, HostEntry(hostent(fqname, <<>>, <<>>)))
    /\ UNCHANGED <<build, _mutex, fqname, count, errVars>>

\* win6 branch: getaddrinfo(fqname) fails: error(lastError(), address.toString())
HbaFwdFail(t) ==
    /\ pc[t] = "hba_fwd"
    /\ \E code \in ErrCodes : Throw(t, raise(code, toString(address[t])))
    /\ UNCHANGED <<build, _cache, _mutex, fqname, count, errVars>>

----------------------------------------------------------------------------
(* DNS::resolveOne after resolve() has returned *)

\* what entry.addresses() yields: the stored list, or anything at all when
\* the map node behind the reference has been destroyed
addressesOf(r) ==
    IF r.dangling
    THEN {<<>>, <<A1>>, <<Garbage>>}
    ELSE {_cache[r.key].addresses}

\* if (!entry.addresses().empty()) return entry.addresses()[0];
\* else throw NoAddressFoundException(address);
RoRead(t) ==
    /\ pc[t] = "ro_read"
    /\ \E ad \in addressesOf(ret[t]) :
          ret' = [ret EXCEPT ![t] =
                    IF ad # <<>> THEN Value(ad[1])
                    ELSE Thrown(Exc("NoAddressFoundException", <<arg[t]>>))]
    /\ pc' = [pc EXCEPT ![t] = "done"]
    /\ op' = [op EXCEPT ![t] = "none"]
    /\ arg' = [arg EXCEPT ![t] = NoName]
    /\ UNCHANGED <<build, _cache, _mutex, fqname, hostname, address, count, errVars>>

----------------------------------------------------------------------------
(* DNS::flushCache *)

FlushLock(t) ==
    /\ Lock(t, "flush_lock", "flush_clear")
    /\ UNCHANGED <<build, _cache, fqname, op, arg, hostname, address, ret, count, errVars>>

\* _cache.clear() destroys every node of the map, so every reference handed
\* out before now refers to a destroyed HostEntry
destroyed(r) == IF r.kind = "ref" THEN [r EXCEPT !.dangling = TRUE] ELSE r

FlushClear(t) ==
    /\ pc[t] = "flush_clear"
    /\ _cache' = clear(_cache)
    /\ ret' = [u \in Threads |-> IF u = t THEN Void ELSE destroyed(ret[u])]
    /\ pc' = [pc EXCEPT ![t] = "leave"]
    /\ UNCHANGED <<build, _mutex, fqname, op, arg, hostname, address, count, errVars>>

----------------------------------------------------------------------------
(* The specification *)

Next ==
    \E t \in Threads :
        \/ CallHostByName(t) \/ CallHostByAddress(t) \/ CallResolve(t)
        \/ CallResolveOne(t) \/ CallThisHost(t)
        \/ CallFlushCache(t) \/ Leave(t) \/ Finish(t)
        \/ HbnLock(t) \/ HbnHit(t) \/ HbnMiss(t) \/ HbnOsOk(t) \/ HbnOsFail(t)
        \/ HbaLock(t) \/ HbaOsOkPosix(t) \/ HbaOsOkHit(t) \/ HbaOsOkMiss(t)
        \/ HbaOsFail(t) \/ HbaFwdOk(t) \/ HbaFwdFail(t)
        \/ RoRead(t)
        \/ FlushLock(t) \/ FlushClear(t)

Spec == Init /\ [][Next]_vars

\* thread t blocks in FastMutex::lock() and gets the mutex
Acquire(t) == HbnLock(t) \/ HbaLock(t) \/ FlushLock(t)

\* thread t, inside an operation and not waiting for the mutex, runs on: the
\* code between two positions executes, the OS resolver call it is in comes
\* back with an answer or an error, the ScopedLock is destroyed
Proceed(t) ==
    \/ HbnHit(t) \/ HbnMiss(t) \/ HbnOsOk(t) \/ HbnOsFail(t)
    \/ HbaOsOkPosix(t) \/ HbaOsOkHit(t) \/ HbaOsOkMiss(t) \/ HbaOsFail(t)
    \/ HbaFwdOk(t) \/ HbaFwdFail(t)
    \/ FlushClear(t) \/ Leave(t) \/ RoRead(t)

\* The same program under a fair scheduler and a resolver that always comes
\* back: a thread that can run on is not halted for ever, and a thread that
\* waits for a mutex that stays free gets it.  FastMutex hands the mutex to
\* waiters in no promised order, so nothing more is assumed of the lock.
SpecFair ==
    /\ Init /\ [][Next]_vars
    /\ \A t \in Threads : WF_vars(Proceed(t)) /\ WF_vars(Acquire(t))

----------------------------------------------------------------------------
(* Scenario: every thread looks up "x" through hostByName, and the OS
   resolver hands back one fixed answer *)

FixedAnswer == hostent("x", <<"www.x">>, <<A1, A2>>)

\* hostByName("x"), called directly, by resolve("x") (line 167) or by
\* thisHost() on the host named "x" (line 183)
CallHostByNameX(t) == Enter(t, "hostByName", NoName, "hbn_lock", "x", NoAddr)
CallResolveX(t) == resolve(t, "resolve", "x")

HbnOsFixed(t) == HbnOsAnswer(t, FixedAnswer)

NextSameName ==
    \E t \in Threads :
        \/ CallHostByNameX(t) \/ CallResolveX(t) \/ CallThisHost(t)
        \/ HbnLock(t) \/ HbnHit(t) \/ HbnMiss(t)
        \/ HbnOsFixed(t) \/ Leave(t) \/ Finish(t)

SpecSameName == Init /\ [][NextSameName]_vars

----------------------------------------------------------------------------
(* The error translator on its own: error(code, arg) over a range of codes *)

MaxCode == 6
TestCodes == (0 - MaxCode .. MaxCode) \cup (10090 .. 10094) \cup (11000 .. 11005)
Subjects == Names \cup {toString(a) : a \in IPAddrs}

InitError ==
    /\ InitDns
    /\ tcode \in TestCodes
    /\ targ \in Subjects
    /\ tthrown = NoRet

\* one call of DNS::error(tcode, targ)
Translate ==
    /\ tthrown = NoRet
    /\ tthrown' = LET e == error(tcode, targ)
                  IN  IF e = Returned THEN [kind |-> "returned"] ELSE Thrown(e)
    /\ UNCHANGED <<build, dnsVars, tcode, targ>>

NextError == Translate

SpecError == InitError /\ [][NextError]_vars

----------------------------------------------------------------------------
(* Vocabulary of the properties *)

OsForwardPcs == {"hbn_os", "hba_fwd"}
OsReversePcs == {"hba_os"}
OsPcs == OsForwardPcs \cup OsReversePcs

\* thread t takes a step out of position p
Steps(t, p) == pc[t] = p /\ pc'[t] # p

\* some thread executes _cache.clear() in this step
FlushStep == \E u \in Threads : Steps(u, "flush_clear")

\* entry.addresses()[0] or the NoAddressFoundException of resolveOne
FirstAddress(e, s) ==
    IF e.addresses # <<>> THEN Value(e.addresses[1])
    ELSE Thrown(Exc("NoAddressFoundException", <<s>>))

----------------------------------------------------------------------------
(* C1 *)

\* C1: a successful hostByName(n) leaves n in the cache and returns the node
\* stored under n; as long as no flushCache runs, n stays in the cache with
\* the same entry; and a hostByName(n) that finds n in the cache returns that
\* very node without going into the OS forward resolver and without raising,
\* whatever the resolver would answer.
C1_SecondLookupIsCacheHit ==
    [][\A t \in Threads : \A n \in Names :
         /\ (Steps(t, "hbn_os") /\ hostname[t] = n /\ ret'[t].kind = "ref")
               => /\ n \in DOMAIN _cache'
                  /\ ret'[t] = RefTo(n)
         /\ (n \in DOMAIN _cache /\ ~FlushStep)
               => /\ n \in DOMAIN _cache'
                  /\ _cache'[n] = _cache[n]
         /\ (Steps(t, "hbn_find") /\ hostname[t] = n /\ n \in DOMAIN _cache)
               => /\ pc'[t] = "leave"
                  /\ ret'[t] = RefTo(n)
                  /\ count'[t].fwd = 0
                  /\ _cache' = _cache
         /\ (Steps(t, "leave") /\ ret[t].kind = "ref" /\ count[t].fwd = 0
                /\ hostname[t] = n)
               => /\ ret'[t] = RefTo(n)
                  /\ n \in DOMAIN _cache'
      ]_vars

\* a hostByName call has hit the cache and is about to return the node
C1_Witness ==
    \E t \in Threads :
        /\ pc[t] = "leave" /\ op[t] = "hostByName"
        /\ ret[t] = RefTo(hostname[t])
        /\ count[t] = [find |-> 1, fwd |-> 0, rev |-> 0, insert |-> 0]
        /\ hostname[t] \in DOMAIN _cache

----------------------------------------------------------------------------
(* C2 *)

\* C2: flushCache leaves the cache empty, and a hostByName(n) that finds the
\* cache without n, as it is after a flush, goes into the OS forward resolver
\* exactly once before it leaves.
C2_FlushThenOneOsCall ==
    [][\A t \in Threads :
         /\ Steps(t, "flush_clear") => DOMAIN _cache' = {}
         /\ (Steps(t, "hbn_find") /\ hostname[t] \notin DOMAIN _cache)
               => /\ pc'[t] = "hbn_os"
                  /\ count'[t].fwd = 1
         /\ Steps(t, "hbn_os")
               => /\ pc'[t] = "leave"
                  /\ count'[t].fwd = 1
         /\ (Steps(t, "leave") /\ hostname[t] # NoName) => count[t].fwd <= 1
      ]_vars

\* the cache is empty again after having held an entry, and a hostByName call
\* is inside its one OS call
C2_Witness ==
    \E t, u \in Threads :
        /\ pc[t] = "hbn_os" /\ count[t].fwd = 1
        /\ DOMAIN _cache = {}
        /\ ret[u].kind = "ref" /\ ret[u].dangling
        /\ ret[u].key = hostname[t]

----------------------------------------------------------------------------
(* C3 *)

\* C3: no caller ever holds a reference to an entry that a flushCache has
\* destroyed: every entry handed out stays valid.
C3_ReturnedEntriesStayValid ==
    \A t \in Threads : ret[t].kind = "ref" => ~ret[t].dangling

----------------------------------------------------------------------------
(* C4 *)

\* C4 as claimed: no thread is inside an OS resolver call while it holds the
\* cache mutex.
C4_Original ==
    \A t \in Threads : pc[t] \in OsPcs => _mutex # t

\* C4 as amended: every thread inside an OS forward or reverse resolver call
\* holds the cache mutex, so at most one OS query is in flight at a time.
C4_LockHeldAcrossOsCall ==
    /\ \A t \in Threads : pc[t] \in OsPcs => _mutex = t
    /\ Cardinality({t \in Threads : pc[t] \in OsPcs}) <= 1

\* one thread is inside the OS forward resolver while another waits for the
\* mutex to look up the same name
C4_Witness ==
    \E t, u \in Threads :
        /\ t # u
        /\ pc[t] = "hbn_os" /\ _mutex = t
        /\ pc[u] = "hbn_lock" /\ hostname[u] = hostname[t]

----------------------------------------------------------------------------
(* C5 *)

\* C5: when the threads call hostByName("x") concurrently and the OS resolver
\* returns one fixed entry, every call returns the live node stored under "x",
\* whose value is that entry, no call raises, and once a call has completed
\* the cache holds exactly one entry, the one for "x".
C5_ConcurrentSameName ==
    /\ \A t \in Threads :
          /\ ret[t].kind # "exc"
          /\ ret[t].kind = "ref"
                => /\ ret[t] = RefTo("x")
                   /\ "x" \in DOMAIN _cache
                   /\ _cache["x"] = [name |-> "x", aliases |-> <<"www.x">>,
                                     addresses |-> <<A1, A2>>]
    /\ (\E t \in Threads : pc[t] = "done") => DOMAIN _cache = {"x"}

\* every thread has completed its hostByName("x") and holds the entry
C5_Witness ==
    \A t \in Threads : pc[t] = "done" /\ ret[t] = RefTo("x")

----------------------------------------------------------------------------
(* C6 *)

HbnPcs == {"hbn_lock", "hbn_find", "hbn_os"}
HbaPcs == {"hba_lock", "hba_os", "hba_fwd"}

\* C6: resolve(input), called directly or by resolveOne, enters hostByAddress
\* with the parsed address exactly when input is a literal IP address, and
\* enters hostByName with input otherwise; a call that is inside one of the
\* two lookups never moves into the other.
C6_ResolveRouting ==
    [][\A t \in Threads :
         /\ (pc[t] = "idle" /\ op'[t] \in {"resolve", "resolveOne"})
               => /\ arg'[t] \in {"x", "192.0.2.1"}
                  /\ arg'[t] = "192.0.2.1"
                        => /\ pc'[t] = "hba_lock"
                           /\ address'[t] = <<192, 0, 2, 1>>
                           /\ hostname'[t] = NoName
                  /\ arg'[t] = "x"
                        => /\ pc'[t] = "hbn_lock"
                           /\ hostname'[t] = "x"
                           /\ address'[t] = NoAddr
         /\ pc[t] \in HbnPcs => pc'[t] \notin HbaPcs
         /\ pc[t] \in HbaPcs => pc'[t] \notin HbnPcs
         /\ pc[t] \in HbnPcs => count[t].rev = 0
      ]_vars

\* one resolve call is inside hostByAddress for a literal address while
\* another is inside hostByName for a host name
C6_Witness ==
    \E t, u \in Threads :
        /\ op[t] = "resolve" /\ arg[t] = "192.0.2.1" /\ pc[t] = "hba_os"
        /\ op[u] = "resolve" /\ arg[u] = "x" /\ pc[u] = "hbn_lock"

----------------------------------------------------------------------------
(* C7 *)

\* C7: when resolveOne reads the entry that resolve handed it, that entry is
\* alive, and resolveOne returns its first address, or raises
\* NoAddressFoundException naming the input when it has no address.
C7_FirstAddressOfEntry ==
    [][\A t \in Threads :
         Steps(t, "ro_read")
            => /\ ~ret[t].dangling
               /\ ret[t].key \in DOMAIN _cache
               /\ ret'[t] = FirstAddress(_cache[ret[t].key], arg[t])
      ]_vars

----------------------------------------------------------------------------
(* C8 *)

\* the error kind an exception stands for: its class and, for the classes
\* thrown with a fixed text, that text
KindOf(e) ==
    CASE e.type = "HostNotFoundException" /\ Len(e.args) = 1 -> "HostNotFound"
      [] e.type = "NoAddressFoundException" /\ Len(e.args) = 1 -> "NoAddressFound"
      [] e.type = "DNSException" /\ Len(e.args) = 2
            /\ e.args[1] = "Temporary DNS error while resolving" -> "TemporaryDnsError"
      [] e.type = "DNSException" /\ Len(e.args) = 2
            /\ e.args[1] = "Non recoverable DNS error while resolving" -> "NonRecoverableDnsError"
      [] e.type = "NetException" /\ Len(e.args) = 1
            /\ e.args[1] \in {"Net subsystem not ready", "Net subsystem not initialized"}
            -> "NetworkSubsystemUnavailable"
      [] e.type = "IOException" /\ Len(e.args) = 1 -> "GenericIOFailure"
      [] OTHER -> "undocumented"

\* the kind the table documents for a platform code
DocumentedKind(b, code) ==
    CASE code = (IF b = "win6" THEN 11001 ELSE 1) -> "HostNotFound"
      [] code = (IF b = "win6" THEN 11002 ELSE 2) -> "TemporaryDnsError"
      [] code = (IF b = "win6" THEN 11003 ELSE 3) -> "NonRecoverableDnsError"
      [] code = (IF b = "win6" THEN 11004 ELSE 4) -> "NoAddressFound"
      [] code = (IF b = "win6" THEN 10091 ELSE 0 - 4) -> "NetworkSubsystemUnavailable"
      [] code = (IF b = "win6" THEN 10093 ELSE 0 - 5) -> "NetworkSubsystemUnavailable"
      [] OTHER -> "GenericIOFailure"

\* C8: error(code, arg) never returns; it raises the kind documented for the
\* code, and for a code outside the table an IOException whose text is the
\* decimal form of the code.
C8_ErrorTable ==
    tthrown # NoRet
       => /\ tthrown.kind = "exc"
          /\ KindOf(tthrown.exc) = DocumentedKind(build, tcode)
          /\ KindOf(tthrown.exc) = "GenericIOFailure"
                => tthrown.exc.args = <<ToString(tcode)>>

\* the translator has raised for the no-recovery code
C8_Witness ==
    /\ tthrown.kind = "exc"
    /\ tcode = POCO_NO_RECOVERY
    /\ tthrown.exc.type = "DNSException"

----------------------------------------------------------------------------
(* C9 *)

\* the query subject of the lookup thread t is in: the name given to
\* hostByName or the text of the address given to hostByAddress
Subject(t) ==
    IF address[t] = NoAddr THEN hostname[t]
    ELSE IF address[t] = <<192, 0, 2, 1>> THEN "192.0.2.1" ELSE "192.0.2.2"

Carries(e, s) == \E i \in DOMAIN e.args : e.args[i] = s

\* some step raises an error out of a lookup or out of resolveOne
RaisedBy(t) ==
    /\ pc[t] \in OsPcs \cup {"ro_read"}
    /\ pc'[t] # pc[t]
    /\ ret'[t].kind = "exc"

SubjectOf(t) == IF pc[t] = "ro_read" THEN arg[t] ELSE Subject(t)

\* C9 as claimed: every error raised by hostByName, hostByAddress, resolve or
\* resolveOne carries the original query subject.
C9_Original ==
    [][\A t \in Threads : RaisedBy(t) => Carries(ret'[t].exc, SubjectOf(t))]_vars

\* C9 as amended: the errors raised for host-not-found, try-again,
\* no-recovery and no-data, and the NoAddressFoundException of resolveOne,
\* carry the original query subject; the errors raised for the network
\* subsystem codes and for codes outside the table carry no subject.
C9_SubjectOnDnsErrors ==
    [][\A t \in Threads :
         RaisedBy(t)
            => /\ ret'[t].exc.type \in {"HostNotFoundException", "DNSException",
                                        "NoAddressFoundException", "NetException",
                                        "IOException"}
               /\ ret'[t].exc.type \in {"HostNotFoundException", "DNSException",
                                        "NoAddressFoundException"}
                     => Carries(ret'[t].exc, SubjectOf(t))
               /\ ret'[t].exc.type \in {"NetException", "IOException"}
                     => ~Carries(ret'[t].exc, SubjectOf(t))
      ]_vars

\* hostByAddress has raised a host-not-found error that names the address
C9_Witness ==
    \E t \in Threads :
        /\ pc[t] = "leave"
        /\ ret[t] = Thrown(Exc("HostNotFoundException", <<"192.0.2.2">>))

----------------------------------------------------------------------------
(* C10 *)

\* C10: when the OS forward or reverse resolver fails, the call raises at
\* once without a further OS call, hands out no entry, and the cache is as
\* it was when the call took the lock: nothing is stored for the failure, so
\* the name is still missing and a later hostByName goes into the OS resolver
\* again, as every hostByAddress does.
C10_FailureNotCached ==
    [][\A t \in Threads :
         /\ (pc[t] \in OsPcs /\ pc'[t] # pc[t] /\ ret'[t].kind = "exc")
               => /\ pc'[t] = "leave"
                  /\ _cache' = _cache
                  /\ count'[t] = count[t]
                  /\ count[t].insert = 0
                  /\ count[t].fwd + count[t].rev <= 2
                  /\ pc[t] = "hbn_os" => hostname[t] \notin DOMAIN _cache'
         /\ (_mutex = t /\ pc[t] \notin {"flush_clear", "leave"}
                /\ pc'[t] = pc[t])
               => _cache' = _cache
         /\ (_mutex = t /\ pc[t] = "leave" /\ ret[t].kind = "exc")
               => /\ _cache' = _cache
                  /\ pc'[t] \in {"leave", "idle"}
                  /\ ret'[t].kind \in {"exc", "none"}
         /\ (Steps(t, "hbn_find") /\ hostname[t] \notin DOMAIN _cache)
               => pc'[t] = "hbn_os"
         /\ Steps(t, "hba_lock") => pc'[t] = "hba_os"
      ]_vars

\* a hostByName call has failed in the OS resolver with the name still
\* missing from a cache that holds another entry
C10_Witness ==
    \E t \in Threads :
        /\ pc[t] = "leave" /\ ret[t].kind = "exc"
        /\ count[t] = [find |-> 1, fwd |-> 1, rev |-> 0, insert |-> 0]
        /\ DOMAIN _cache = {"y"}

----------------------------------------------------------------------------
(* C11 *)

\* the canonical name the reverse lookup of an address yields
Canon(a) == IF a = <<192, 0, 2, 1>> THEN "x" ELSE "y"

\* thread t comes out of the reverse lookup and the lookup has succeeded
ReverseOk(t) == Steps(t, "hba_os") /\ ret'[t].kind # "exc"

\* C11: when the reverse lookup of hostByAddress succeeds and the canonical
\* name is a key of the cache, the call returns the node stored under that
\* name, leaves the cache as it is, and makes no OS forward resolver call.
C11_ReverseHitReturnsCached ==
    [][\A t \in Threads :
         /\ (ReverseOk(t) /\ Canon(address[t]) \in DOMAIN _cache)
               => /\ pc'[t] = "leave"
                  /\ ret'[t] = RefTo(Canon(address[t]))
                  /\ _cache' = _cache
                  /\ count'[t].fwd = 0
         /\ (Steps(t, "leave") /\ address[t] # NoAddr /\ count[t].fwd = 0
                /\ ret[t].kind = "ref")
               => /\ _cache' = _cache
                  /\ ret'[t] = ret[t]
      ]_vars

\* hostByAddress is about to return the entry that an earlier hostByName
\* stored, after a cache check and no forward call
C11_Witness ==
    \E t \in Threads :
        /\ pc[t] = "leave" /\ address[t] = A1
        /\ ret[t] = RefTo("x")
        /\ count[t] = [find |-> 1, fwd |-> 0, rev |-> 1, insert |-> 0]
        /\ "x" \in DOMAIN _cache
        /\ _cache["x"].addresses = <<A1, A2>>

----------------------------------------------------------------------------
(* C12 *)

\* the cache c with one more pair
Plus(c, k, e) == [x \in DOMAIN c \cup {k} |-> IF x = k THEN e ELSE c[x]]

\* C12 as claimed: when the reverse lookup succeeds and the canonical name is
\* not in the cache, hostByAddress goes into the OS forward resolver with the
\* canonical name, and on its answer inserts the entry under that name only.
C12_Original ==
    [][\A t \in Threads :
         /\ (ReverseOk(t) /\ Canon(address[t]) \notin DOMAIN _cache)
               => /\ pc'[t] = "hba_fwd"
                  /\ count'[t].fwd = 1
                  /\ _cache' = _cache
         /\ (Steps(t, "hba_fwd") /\ ret'[t].kind = "ref")
               => /\ ret'[t] = RefTo(Canon(address[t]))
                  /\ DOMAIN _cache' = DOMAIN _cache \cup {Canon(address[t])}
      ]_vars

\* C12 as amended: when the reverse lookup succeeds and the canonical name is
\* not in the cache, hostByAddress inserts one entry under the canonical name,
\* never under the address text, adds no other key and returns that entry.
\* In the win6 build the entry is built from the answer of an OS forward
\* resolver call on the canonical name; in the other build no forward call is
\* made and the entry is built from the reverse answer itself.
C12_ReverseMissInsertsUnderName ==
    [][\A t \in Threads :
         /\ (ReverseOk(t) /\ Canon(address[t]) \notin DOMAIN _cache
                /\ build = "win6")
               => /\ pc'[t] = "hba_fwd"
                  /\ fqname' = Canon(address[t])
                  /\ count'[t].fwd = 1
                  /\ _cache' = _cache
         /\ (Steps(t, "hba_fwd") /\ ret'[t].kind = "ref")
               => /\ fqname = Canon(address[t])
                  /\ ret'[t] = RefTo(fqname)
                  /\ \E ad \in {<<A1, A2>>, <<>>} :
                        _cache' = Plus(_cache, fqname,
                                       [name |-> "", aliases |-> <<>>, addresses |-> ad])
                  /\ count[t].fwd = 1 /\ count'[t].fwd = 1
         /\ (ReverseOk(t) /\ Canon(address[t]) \notin DOMAIN _cache
                /\ build = "posix")
               => /\ pc'[t] = "leave"
                  /\ ret'[t] = RefTo(Canon(address[t]))
                  /\ _cache' = Plus(_cache, Canon(address[t]),
                                    [name |-> Canon(address[t]), aliases |-> <<>>,
                                     addresses |-> <<address[t]>>])
                  /\ count'[t].fwd = 0
      ]_vars

\* hostByAddress has made the reverse and the forward call and is about to
\* return the entry it inserted under the canonical name, the only key
C12_Witness ==
    \E t \in Threads :
        /\ pc[t] = "leave" /\ address[t] = A1
        /\ ret[t] = RefTo("x")
        /\ count[t] = [find |-> 1, fwd |-> 1, rev |-> 1, insert |-> 1]
        /\ DOMAIN _cache = {"x"}
        /\ _cache["x"] = [name |-> "", aliases |-> <<>>, addresses |-> <<A1, A2>>]

----------------------------------------------------------------------------
(* C13 *)

\* C13: an entry stored under a key stays as it is until a flushCache runs,
\* whatever hostByName and hostByAddress do meanwhile; and a lookup that
\* returns hands out the live node stored under its key, the name given to
\* hostByName or the canonical name of the address given to hostByAddress.
C13_FirstCommittedWins ==
    [][/\ \A k \in DOMAIN _cache :
             ~FlushStep => (k \in DOMAIN _cache' /\ _cache'[k] = _cache[k])
       /\ \A t \in Threads :
             (Steps(t, "leave") /\ ret[t].kind = "ref")
                => /\ ret[t] = RefTo(IF address[t] = NoAddr THEN hostname[t]
                                     ELSE Canon(address[t]))
                   /\ ret[t].key \in DOMAIN _cache'
                   /\ ret'[t] = ret[t]
      ]_vars

\* hostByAddress has tried to insert the reverse answer under a name that an
\* earlier hostByName stored with other data, and the earlier entry stands
C13_Witness ==
    \E t \in Threads :
        /\ pc[t] = "leave" /\ address[t] = A1
        /\ ret[t] = RefTo("x")
        /\ count[t] = [find |-> 0, fwd |-> 0, rev |-> 1, insert |-> 1]
        /\ "x" \in DOMAIN _cache
        /\ _cache["x"] = [name |-> "x", aliases |-> <<"www.x">>, addresses |-> <<A1, A2>>]

----------------------------------------------------------------------------
(* C14 *)

\* what one call may have done so far: cache checks, forward calls, reverse
\* calls, inserts
Did(f, w, r, i) == [find |-> f, fwd |-> w, rev |-> r, insert |-> i]

\* C14: one call of hostByName, hostByAddress or resolve makes at most one
\* cache check, at most one insert, at most one OS forward and one OS reverse
\* call; two OS calls happen only as a reverse call followed, after a cache
\* check, by a forward call; hostByName makes no reverse call; nothing is
\* done twice.
C14_BoundedWorkPerCall ==
    \A t \in Threads :
        /\ count[t].find <= 1 /\ count[t].insert <= 1
        /\ count[t].fwd <= 1 /\ count[t].rev <= 1
        /\ count[t].fwd + count[t].rev = 2
              => (build = "win6" /\ count[t].find = 1 /\ pc[t] \in {"hba_fwd", "leave"})
        /\ pc[t] \in HbnPcs => count[t].rev = 0
        /\ (pc[t] = "leave" /\ hostname[t] # NoName)
              => count[t] \in {Did(1, 0, 0, 0), Did(1, 1, 0, 1)}
        /\ pc[t] \notin HbnPcs \cup HbaPcs \cup {"leave"} => count[t] = Did(0, 0, 0, 0)

\* hostByAddress is in its second OS call, the forward one
C14_Witness ==
    \E t \in Threads :
        /\ pc[t] = "hba_fwd"
        /\ count[t] = Did(1, 1, 1, 0)

----------------------------------------------------------------------------
(* C15 *)

\* positions between the construction of the ScopedLock and its destruction
LockedPcs == {"hbn_find", "hbn_os", "hba_os", "hba_fwd", "flush_clear", "leave"}

\* positions whose step executes _cache.find, _cache.insert or _cache.clear
CacheOpPcs == {"hbn_find", "hbn_os", "hba_os", "hba_fwd", "flush_clear"}

\* C15: at most one thread is inside a locked scope and it is the holder of
\* the mutex; every step that executes a find, insert or clear on the cache
\* is taken by the thread that holds the mutex before and after the step, and
\* the cache changes in no other step.
C15_CacheOpsUnderMutex ==
    /\ [](/\ \A t \in Threads : pc[t] \in LockedPcs => _mutex = t
          /\ Cardinality({t \in Threads : pc[t] \in LockedPcs}) <= 1)
    /\ [][/\ \A t \in Threads :
                (\E p \in CacheOpPcs : Steps(t, p)) => (_mutex = t /\ _mutex' = t)
          /\ _cache' # _cache
                => \E t \in Threads : \E p \in CacheOpPcs : Steps(t, p) /\ _mutex = t
         ]_vars

\* one thread is about to clear a cache that holds an entry while another
\* waits for the mutex at the entry of hostByName
C15_Witness ==
    \E t, u \in Threads :
        /\ t # u
        /\ pc[t] = "flush_clear" /\ _mutex = t
        /\ _cache # EmptyCache
        /\ pc[u] = "hbn_lock"

----------------------------------------------------------------------------
(* C16 *)

\* C16: the cache starts empty; a step other than the clear of flushCache
\* keeps every pair as it is and adds at most one key, the key of the lookup
\* that succeeds in that very step; the clear of flushCache leaves no pair, in
\* one step taken under the mutex while no other thread is inside a locked
\* scope.
C16_CacheLifecycle ==
    /\ _cache = EmptyCache
    /\ [][/\ ~FlushStep
                => /\ \A k \in DOMAIN _cache :
                         k \in DOMAIN _cache' /\ _cache'[k] = _cache[k]
                   /\ _cache' # _cache
                         => \E t \in Threads :
                               /\ \E p \in OsPcs : Steps(t, p)
                               /\ ret'[t].kind = "ref"
                               /\ ret'[t].key \notin DOMAIN _cache
                               /\ ret'[t].key = (IF address[t] = NoAddr THEN hostname[t]
                                                 ELSE Canon(address[t]))
                               /\ DOMAIN _cache' = DOMAIN _cache \cup {ret'[t].key}
          /\ FlushStep
                => /\ DOMAIN _cache' = {}
                   /\ \E u \in Threads :
                         /\ Steps(u, "flush_clear") /\ _mutex = u
                         /\ \A t \in Threads \ {u} : pc[t] \notin LockedPcs
         ]_vars

\* flushCache has just emptied the cache, and a reference handed out before
\* is left over
C16_Witness ==
    \E t, u \in Threads :
        /\ pc[t] = "leave" /\ ret[t] = Void
        /\ _cache = EmptyCache
        /\ ret[u].kind = "ref" /\ ret[u].dangling

----------------------------------------------------------------------------
(* C17 *)

\* C17 as claimed: every entry stored in the cache has a non-empty address
\* list.
C17_Original ==
    \A k \in DOMAIN _cache : _cache[k].addresses # <<>>

\* the address lists the OS resolver reports with a success for name k:
\* through the forward lookup, and in the posix build through the reverse
\* lookup of the address that has this name
Reported(k) ==
    IF k = "x"
    THEN {<<A1, A2>>, <<>>} \cup (IF build = "posix" THEN {<<A1>>} ELSE {})
    ELSE IF build = "posix" THEN {<<A2>>} ELSE {}

\* C17 as amended: every entry stored in the cache carries the address list
\* the OS resolver reported with the success that created it, unfiltered: it
\* is non-empty whenever the resolver reported an address, and it is empty
\* when the resolver reported a success with no address; a reference returned
\* as a success is to such an entry.
C17_AddressesAsReported ==
    /\ \A k \in DOMAIN _cache : _cache[k].addresses \in Reported(k)
    /\ \A t \in Threads :
          (pc[t] = "leave" /\ ret[t].kind = "ref")
             => /\ ret[t].key \in DOMAIN _cache
                /\ _cache[ret[t].key].addresses \in Reported(ret[t].key)

\* hostByName is about to return, as a success, an entry it has just
\* inserted with no address
C17_Witness ==
    \E t \in Threads :
        /\ pc[t] = "leave" /\ hostname[t] = "x"
        /\ ret[t] = RefTo("x")
        /\ count[t].insert = 1
        /\ "x" \in DOMAIN _cache
        /\ _cache["x"].addresses = <<>>

----------------------------------------------------------------------------
(* C18 *)

\* C18: when the reverse lookup of hostByAddress has succeeded, the canonical
\* name is not cached and the forward lookup fails, the call raises one of the
\* documented errors, naming the address text where the error names a
\* subject, hands out no entry and leaves the cache as it is.
C18_ForwardFailureRaises ==
    [][\A t \in Threads :
         /\ (Steps(t, "hba_fwd") /\ ret'[t].kind # "ref")
               => /\ count[t] = Did(1, 1, 1, 0)
                  /\ fqname \notin DOMAIN _cache
                  /\ pc'[t] = "leave"
                  /\ ret'[t].kind = "exc"
                  /\ KindOf(ret'[t].exc) \in
                        {"HostNotFound", "TemporaryDnsError", "NonRecoverableDnsError",
                         "NoAddressFound", "NetworkSubsystemUnavailable",
                         "GenericIOFailure"}
                  /\ KindOf(ret'[t].exc) \in
                        {"HostNotFound", "TemporaryDnsError", "NonRecoverableDnsError",
                         "NoAddressFound"}
                        => Carries(ret'[t].exc, Subject(t))
                  /\ _cache' = _cache
         /\ (Steps(t, "leave") /\ ret[t].kind = "exc" /\ count[t] = Did(1, 1, 1, 0))
               => /\ pc'[t] = "idle"
                  /\ ret'[t] = NoRet
                  /\ _cache' = _cache
      ]_vars

\* hostByAddress has raised host-not-found, naming the address, out of the
\* forward lookup that followed a reverse lookup and a cache miss
C18_Witness ==
    \E t \in Threads :
        /\ pc[t] = "leave" /\ ret[t].kind = "exc"
        /\ count[t] = Did(1, 1, 1, 0)
        /\ KindOf(ret[t].exc) = "HostNotFound"
        /\ Carries(ret[t].exc, "192.0.2.2")
        /\ "y" \notin DOMAIN _cache

----------------------------------------------------------------------------
(* C19 *)

LockPcs == {"hbn_lock", "hba_lock", "flush_lock"}

\* the positions at which no operation is in progress: before a call, and
\* after the call has handed its result to the caller
AtRest == {"idle", "done"}

\* the safety part: the mutex is held only by a thread inside a locked
\* scope, and a thread at a lock request does not hold the mutex
NoLeakedLock ==
    /\ _mutex # 0 => pc[_mutex] \in LockedPcs
    /\ \A t \in Threads : pc[t] \in LockPcs => _mutex # t

\* every exit from a locked scope, with a result or an error, frees the mutex
ExitUnlocks ==
    \A t \in Threads :
        (pc[t] \in LockedPcs /\ pc'[t] \notin LockedPcs)
           => (pc[t] = "leave" /\ _mutex = t /\ _mutex' = 0)

\* every operation a thread has begun comes to its end
Completes == \A t \in Threads : (pc[t] \notin AtRest) ~> (pc[t] \in AtRest)

\* C19 as claimed: no lock is leaked, no thread asks for the mutex while it
\* holds it, and under a fair scheduler and a resolver that always comes back
\* every operation a thread has begun comes to its end.
C19_Original ==
    /\ []NoLeakedLock
    /\ [][ExitUnlocks]_vars
    /\ Completes

\* C19 as amended: no lock is leaked and no thread asks for the mutex while
\* it holds it; and every operation a thread has begun comes to its end if,
\* beyond the fair scheduler and the resolver that always comes back, the
\* mutex is granted fairly: a thread is not passed over for ever while the
\* mutex keeps coming free.
C19_CompletesUnderFairLock ==
    /\ []NoLeakedLock
    /\ [][ExitUnlocks]_vars
    /\ (\A t \in Threads : SF_vars(Acquire(t))) => Completes

\* a thread waits at the lock request of hostByAddress while another is
\* inside the OS resolver call of hostByName and holds the mutex
C19_Witness ==
    \E t, u \in Threads :
        /\ t # u
        /\ pc[t] = "hba_lock"
        /\ pc[u] = "hbn_os" /\ _mutex = u

----------------------------------------------------------------------------
(* C20 *)

\* C20: a thread inside the OS forward call of hostByName holds the mutex and
\* its name is still missing from the cache, so no other thread's insert has
\* overtaken its miss; when the call succeeds the name was missing before the
\* step and is stored after it, and a stored name stays until the clear of
\* flushCache: between two flushes the OS forward resolver succeeds for a
\* name at most once on behalf of hostByName.
C20_NoDuplicateResolverWork ==
    /\ [](\A t \in Threads :
             pc[t] = "hbn_os"
                => /\ _mutex = t
                   /\ hostname[t] \notin DOMAIN _cache
                   /\ \A u \in Threads \ {t} : pc[u] \notin LockedPcs)
    /\ [][/\ \A t \in Threads :
                (Steps(t, "hbn_os") /\ ret'[t].kind = "ref")
                   => /\ hostname[t] \notin DOMAIN _cache
                      /\ DOMAIN _cache' = DOMAIN _cache \cup {hostname[t]}
                      /\ count'[t] = Did(1, 1, 0, 1)
          /\ \A n \in DOMAIN _cache : ~FlushStep => n \in DOMAIN _cache'
         ]_vars

\* one caller of hostByName("x") has come back from the OS resolver and
\* stored the entry while another caller of hostByName("x") waits for the
\* mutex
C20_Witness ==
    \E t, u \in Threads :
        /\ t # u
        /\ pc[t] = "leave" /\ hostname[t] = "x" /\ ret[t] = RefTo("x")
        /\ count[t] = Did(1, 1, 0, 1)
        /\ pc[u] = "hbn_lock" /\ hostname[u] = "x"

====
